---- MODULE Spec2Model ----
(***************************************************************************)
(* SnipSafe: the snippet store and its REST handlers                       *)
(* (server/routes/snippets.js, server/models/Snippet.js), the user store   *)
(* and registration (server/models/User.js, server/routes/auth.js) and the *)
(* singleton configuration (server/models/AppConfig.js).                   *)
(*                                                                         *)
(* A snippet id is its index in the collection and a user id is the       *)
(* number of the user in order of registration.  Time is in minutes.      *)
(***************************************************************************)
EXTENDS Integers, Sequences, FiniteSets, TLC

VARIABLES
    users,      \* User collection: user id -> user document
    snippets,   \* Snippet collection: sequence of snippet documents
    nextGrant,  \* number of sharedWith subdocument _ids issued so far
    config,     \* the AppConfig singleton document
    env,        \* process.env of the deployment
    now,        \* Date.now(), in minutes
    res,        \* the response to the most recent request
    inflight    \* the documents that handlers have loaded and not yet saved

vars == <<users, snippets, nextGrant, config, env, now, res, inflight>>

----------------------------------------------------------------------------
(* Bounds                                                                  *)

MaxSnippets == 1
MaxGrants == 2
MaxViews == 2
MaxInflight == 2
MaxTime == 6

(* Program constants                                                       *)

FiveMinutes == 5

----------------------------------------------------------------------------
(* Values                                                                  *)

NoUser == 0               \* undefined: no req.user, no share.user
Visibilities == {"private", "organization", "public"}
Permissions == {"view", "edit"}

\* The accounts the deployment starts with, by user id.
InitialUsers ==
    [u \in 1..3 |->
        CASE u = 1 -> [username |-> "alice", email |-> "alice@a.com", organization |-> "OrgA",
                       role |-> "admin", isActive |-> TRUE, authProvider |-> "local"]
          [] u = 2 -> [username |-> "bob",   email |-> "bob@a.com",   organization |-> "OrgA",
                       role |-> "user", isActive |-> TRUE, authProvider |-> "local"]
          [] u = 3 -> [username |-> "carol", email |-> "carol@b.com", organization |-> "OrgB",
                       role |-> "user", isActive |-> TRUE, authProvider |-> "local"]]

\* String.prototype.trim on the strings the requests carry.
trim(s) ==
    CASE s = " dave@a.com " -> "dave@a.com"
      [] s = " bob "        -> "bob"
      [] OTHER              -> s

\* A request body is a function from field names to values; a field that the
\* body does not carry reads as undefined.
Has(body, f) == f \in DOMAIN body

----------------------------------------------------------------------------
(* server/models/User.js                                                   *)

userSchema(username, email, organization) ==
    [username |-> trim(username), email |-> trim(email),
     organization |-> organization, role |-> "user", isActive |-> TRUE,
     authProvider |-> "local"]

\* User.findOne({ email, isActive: true }): the id of the user, or NoUser.
findUserByEmail(email) ==
    IF \E u \in DOMAIN users : users[u].email = email /\ users[u].isActive
    THEN CHOOSE u \in DOMAIN users : users[u].email = email /\ users[u].isActive
    ELSE NoUser

\* User.findOne({ username, organization, isActive: true })
findUserByUsername(username, organization) ==
    IF \E u \in DOMAIN users : /\ users[u].username = username
                               /\ users[u].organization = organization
                               /\ users[u].isActive
    THEN CHOOSE u \in DOMAIN users : /\ users[u].username = username
                                     /\ users[u].organization = organization
                                     /\ users[u].isActive
    ELSE NoUser

----------------------------------------------------------------------------
(* server/middleware/auth.js and optionalAuth.js                           *)

\* req.user as the auth middleware sets it for a valid token of user u.
auth(u) ==
    [userId |-> u, organization |-> users[u].organization, role |-> users[u].role]

\* An undefined req.user: !req.user holds of it.
undefinedUser == [userId |-> NoUser, organization |-> "", role |-> ""]
isUndefined(reqUser) == reqUser.userId = NoUser

\* optionalAuth: req.user is set as by auth when the request carries a valid
\* token, and is left undefined otherwise.
optionalAuth(u) ==
    IF u \in DOMAIN users /\ users[u].isActive THEN auth(u) ELSE undefinedUser

----------------------------------------------------------------------------
(* server/models/AppConfig.js                                              *)

appConfigSchema ==
    [authMode |-> "local", allowRegistration |-> TRUE, azureAdEnabled |-> FALSE,
     defaultOrganization |-> "Default"]

\* The credentials AZURE_AD_CLIENT_ID, _CLIENT_SECRET and _TENANT_ID are all set.
envCredentials(e) == e.AZURE_AD

\* AppConfig.getConfig on an existing document throws: the environment asks
\* for azure_ad and the credentials are incomplete.
getConfigThrows(c, e) ==
    /\ e.AUTH_MODE # "" /\ c.authMode # e.AUTH_MODE
    /\ e.AUTH_MODE = "azure_ad" /\ ~envCredentials(e)

\* AppConfig.getConfig on an existing document: the document after the
\* reconciliation with the environment, which getConfig saves and returns.
getConfig(c, e) ==
    LET shouldEnableAzureAd == e.AUTH_MODE = "azure_ad" /\ envCredentials(e)
        shouldAllowRegistration == e.AUTH_MODE # "azure_ad"
    IN [authMode |-> IF e.AUTH_MODE # "" THEN e.AUTH_MODE ELSE c.authMode,
        allowRegistration |-> shouldAllowRegistration,
        azureAdEnabled |-> shouldEnableAzureAd,
        defaultOrganization |-> IF e.DEFAULT_ORGANIZATION # ""
                                THEN e.DEFAULT_ORGANIZATION ELSE c.defaultOrganization]

\* AppConfig.getConfig when no document is stored throws: the environment
\* asks for azure_ad and the credentials are incomplete.
newConfigThrows(e) == e.AUTH_MODE = "azure_ad" /\ ~envCredentials(e)

\* AppConfig.getConfig when no document is stored: the document it creates
\* from the environment.
newConfig(e) ==
    [authMode |-> IF e.AUTH_MODE # "" THEN e.AUTH_MODE ELSE "local",
     allowRegistration |-> e.AUTH_MODE # "azure_ad",
     azureAdEnabled |-> e.AUTH_MODE = "azure_ad" /\ envCredentials(e),
     defaultOrganization |-> IF e.DEFAULT_ORGANIZATION # ""
                             THEN e.DEFAULT_ORGANIZATION ELSE "Default"]

\* The enum of authMode, which save() validates.
validateConfig(c) == c.authMode \in {"local", "azure_ad"}

----------------------------------------------------------------------------
(* server/models/Snippet.js                                                *)

\* new Snippet({...}) with the schema defaults.
snippetSchema(body, author, organization, shareId) ==
    [title |-> body.title,
     language |-> IF Has(body, "language") THEN body.language ELSE "plaintext",
     author |-> author,
     organization |-> organization,
     shareId |-> shareId,
     visibility |-> IF Has(body, "visibility") THEN body.visibility ELSE "private",
     views |-> 0,
     isActive |-> TRUE,
     sharedWith |-> <<>>,
     currentViewers |-> <<>>]

\* Schema validation done by save().
validate(doc) ==
    /\ doc.visibility \in Visibilities
    /\ \A i \in 1..Len(doc.sharedWith) : doc.sharedWith[i].permissions \in Permissions

\* The unique index on shareId: no other document holds doc's shareId.
shareIdUnique(id, doc) ==
    \A j \in 1..Len(snippets) : j # id => snippets[j].shareId # doc.shareId

\* cleanupViewers that keeps a viewer last seen exactly five minutes ago.
cleanupViewers_KeepAtFiveMinutes(doc) ==
    LET fiveMinutesAgo == now - FiveMinutes
        fresh(viewer) == viewer.lastSeen >= fiveMinutesAgo
    IN [doc EXCEPT !.currentViewers = SelectSeq(doc.currentViewers, fresh)]

\* snippetSchema.methods.cleanupViewers: the document it saves.
cleanupViewers(doc) ==
    LET fiveMinutesAgo == now - FiveMinutes
        fresh(viewer) == viewer.lastSeen > fiveMinutesAgo
    IN [doc EXCEPT !.currentViewers = SelectSeq(doc.currentViewers, fresh)]

\* findActive with the isActive condition left out of the query.
findActive_AnyState(id) == id \in 1..Len(snippets)

\* Snippet.findOne({ _id: id, isActive: true })
findActive(id) == id \in 1..Len(snippets) /\ snippets[id].isActive

\* findOwnActive with the author condition left out of the query.
findOwnActive_AnyAuthor(id, userId) == findActive(id)

\* findOwnActive without the condition isActive: true.
findOwnActive_AnyState(id, userId) ==
    id \in 1..Len(snippets) /\ snippets[id].author = userId

\* Snippet.findOne({ _id: id, author: userId, isActive: true })
findOwnActive(id, userId) == findActive(id) /\ snippets[id].author = userId

\* Snippet.findOne({ _id: id, author: userId })
findOwn(id, userId) == id \in 1..Len(snippets) /\ snippets[id].author = userId

save(id, doc) == snippets' = [snippets EXCEPT ![id] = doc]

----------------------------------------------------------------------------
(* Responses                                                               *)

Response(op, user, id, req, status, out) ==
    [op |-> op, user |-> user, id |-> id, req |-> req, status |-> status, out |-> out]

\* A request without a body, a response without a payload.
NoBody == [none |-> TRUE]

----------------------------------------------------------------------------
(* server/routes/snippets.js: create, read                                *)

\* const isSharedUser = snippet.sharedWith.some(share => share.user && ...)
isSharedUser(doc, userId) ==
    \E i \in 1..Len(doc.sharedWith) :
        doc.sharedWith[i].user # NoUser /\ doc.sharedWith[i].user = userId

\* The share entry of the requester, as sharedWith.find returns it.
shareEntry(doc, userId) ==
    LET i == CHOOSE i \in 1..Len(doc.sharedWith) :
                 /\ doc.sharedWith[i].user # NoUser /\ doc.sharedWith[i].user = userId
                 /\ \A j \in 1..(i - 1) : doc.sharedWith[j].user # userId
    IN doc.sharedWith[i]

\* POST /
Create(u, body) ==
    /\ u \in DOMAIN users
    /\ Len(snippets) < MaxSnippets
    /\ LET id == Len(snippets) + 1
           doc == snippetSchema(body, auth(u).userId, auth(u).organization, id)
       IN IF Has(body, "title") /\ validate(doc)
          THEN /\ snippets' = Append(snippets, doc)
               /\ res' = Response("create", u, id, body, 201, [snippet |-> doc])
          ELSE /\ snippets' = snippets
               /\ res' = Response("create", u, id, body, 500, NoBody)
    /\ UNCHANGED <<users, nextGrant, config, env, now, inflight>>

\* getByIdDenied with hasOrgAccess granted whatever the visibility.
getByIdDenied_OrgAnyVisibility(doc, reqUser) ==
    LET isAuthor == doc.author = reqUser.userId
        hasOrgAccess == doc.organization = reqUser.organization
        isPublic == doc.visibility = "public"
    IN /\ ~isAuthor /\ ~isSharedUser(doc, reqUser.userId) /\ ~hasOrgAccess /\ ~isPublic
       /\ doc.visibility = "private"

\* The access decision of GET /:id: the request is answered 403.
getByIdDenied(doc, reqUser) ==
    LET isAuthor == doc.author = reqUser.userId
        hasOrgAccess == doc.visibility = "organization" /\
                        doc.organization = reqUser.organization
        isPublic == doc.visibility = "public"
    IN /\ ~isAuthor /\ ~isSharedUser(doc, reqUser.userId) /\ ~hasOrgAccess /\ ~isPublic
       /\ doc.visibility = "private"

\* GET /:id
GetById(u, id) ==
    /\ u \in DOMAIN users
    /\ IF ~findActive(id)
       THEN /\ res' = Response("getById", u, id, NoBody, 404, NoBody)
            /\ UNCHANGED snippets
       ELSE IF snippets[id].author \notin DOMAIN users
       THEN /\ res' = Response("getById", u, id, NoBody, 500, NoBody)
            /\ UNCHANGED snippets
       ELSE IF getByIdDenied(snippets[id], auth(u))
       THEN /\ res' = Response("getById", u, id, NoBody, 403, NoBody)
            /\ UNCHANGED snippets
       ELSE LET doc == cleanupViewers(snippets[id])
                sharingInfo == IF isSharedUser(doc, u)
                               THEN [permissions |-> shareEntry(doc, u).permissions]
                               ELSE NoBody
            IN /\ save(id, doc)
               /\ res' = Response("getById", u, id, NoBody, 200,
                                  [snippet |-> doc, sharingInfo |-> sharingInfo])
    /\ UNCHANGED <<users, nextGrant, config, env, now, inflight>>

\* getByShareIdDenied without the branch for private snippets.
getByShareIdDenied_PrivateOpen(doc, reqUser) ==
    IF doc.visibility = "organization"
    THEN isUndefined(reqUser) \/ doc.organization # reqUser.organization
    ELSE FALSE

\* getByShareIdDenied with public snippets refused to requests without a token.
getByShareIdDenied_PublicSignedIn(doc, reqUser) ==
    IF doc.visibility = "private"
    THEN isUndefined(reqUser) \/ doc.organization # reqUser.organization
    ELSE IF doc.visibility = "organization"
    THEN isUndefined(reqUser) \/ doc.organization # reqUser.organization
    ELSE isUndefined(reqUser)

\* The access decision of GET /share/:shareId: the request is answered 403.
getByShareIdDenied(doc, reqUser) ==
    IF doc.visibility = "private"
    THEN isUndefined(reqUser) \/ doc.organization # reqUser.organization
    ELSE IF doc.visibility = "organization"
    THEN isUndefined(reqUser) \/ doc.organization # reqUser.organization
    ELSE FALSE

\* GET /share/:shareId, for a requester u that is a user or NoUser (no token)
GetByShareId(u, shareId) ==
    /\ u \in DOMAIN users \cup {NoUser}
    /\ LET found == {i \in 1..Len(snippets) :
                        snippets[i].shareId = shareId /\ snippets[i].isActive}
       IN IF found = {}
          THEN /\ res' = Response("getByShareId", u, shareId, NoBody, 404, NoBody)
               /\ UNCHANGED snippets
          ELSE LET id == CHOOSE i \in found : TRUE
                   doc == snippets[id]
               IN IF getByShareIdDenied(doc, optionalAuth(u))
                  THEN /\ res' = Response("getByShareId", u, shareId, NoBody, 403, NoBody)
                       /\ UNCHANGED snippets
                  ELSE /\ doc.views < MaxViews
                       /\ save(id, [doc EXCEPT !.views = doc.views + 1])
                       /\ res' = Response("getByShareId", u, shareId, NoBody, 200,
                                          [snippet |-> [doc EXCEPT !.views = doc.views + 1]])
    /\ UNCHANGED <<users, nextGrant, config, env, now, inflight>>

\* GET /share/:shareId up to its await of snippet.save(): the handler has
\* loaded the document, has passed the access decision and has set
\* snippet.views += 1 on its copy, while other requests are served.
LoadByShareId(u, shareId) ==
    /\ u \in DOMAIN users \cup {NoUser}
    /\ Len(inflight) < MaxInflight
    /\ LET found == {i \in 1..Len(snippets) :
                        snippets[i].shareId = shareId /\ snippets[i].isActive}
       IN /\ found # {}
          /\ LET id == CHOOSE i \in found : TRUE
                 doc == snippets[id]
             IN /\ ~getByShareIdDenied(doc, optionalAuth(u))
                /\ doc.views < MaxViews
                /\ inflight' = Append(inflight,
                                      [op |-> "getByShareId", user |-> u, id |-> id,
                                       req |-> [shareId |-> shareId],
                                       doc |-> [doc EXCEPT !.views = doc.views + 1],
                                       work |-> NoBody, stale |-> FALSE])
    /\ UNCHANGED <<users, snippets, nextGrant, config, env, now, res>>

\* The rest of GET /share/:shareId: save() writes the modified path views
\* of the handler's copy to the stored document, and the copy is the answer.
SaveByShareId(k) ==
    /\ k \in 1..Len(inflight)
    /\ inflight[k].op = "getByShareId"
    /\ LET loaded == inflight[k]
       IN /\ snippets' = [snippets EXCEPT ![loaded.id].views = loaded.doc.views]
          /\ res' = Response("getByShareId", loaded.user, loaded.req.shareId, NoBody, 200,
                             [snippet |-> loaded.doc])
          /\ inflight' = SubSeq(inflight, 1, k - 1) \o SubSeq(inflight, k + 1, Len(inflight))
    /\ UNCHANGED <<users, nextGrant, config, env, now>>

----------------------------------------------------------------------------
(* server/routes/snippets.js: update, soft-delete                          *)

\* Object.assign(snippet, req.body): every field the body carries is set.
assign(doc, body) ==
    [f \in DOMAIN doc |-> IF Has(body, f) THEN body[f] ELSE doc[f]]

\* PUT /:id
Update(u, id, body) ==
    /\ u \in DOMAIN users
    /\ IF ~findOwnActive(id, auth(u).userId)
       THEN /\ res' = Response("update", u, id, body, 404, NoBody)
            /\ UNCHANGED snippets
       ELSE LET doc == assign(snippets[id], body)
            IN IF validate(doc) /\ shareIdUnique(id, doc)
               THEN /\ save(id, doc)
                    /\ res' = Response("update", u, id, body, 200, [snippet |-> doc])
               ELSE /\ res' = Response("update", u, id, body, 500, NoBody)
                    /\ UNCHANGED snippets
    /\ UNCHANGED <<users, nextGrant, config, env, now, inflight>>

\* DELETE /:id
Delete(u, id) ==
    /\ u \in DOMAIN users
    /\ IF ~findOwn(id, auth(u).userId)
       THEN /\ res' = Response("delete", u, id, NoBody, 404, NoBody)
            /\ UNCHANGED snippets
       ELSE /\ save(id, [snippets[id] EXCEPT !.isActive = FALSE])
            /\ res' = Response("delete", u, id, NoBody, 200, NoBody)
    /\ UNCHANGED <<users, nextGrant, config, env, now, inflight>>

----------------------------------------------------------------------------
(* server/routes/snippets.js: the sharing ledger                           *)

\* The in-flight copies without the k-th.
landed(flight, k) == SubSeq(flight, 1, k - 1) \o SubSeq(flight, k + 1, Len(flight))

\* A save of an array path of snippet id raises the version (__v) of the
\* stored document: every in-flight copy of that snippet is behind it.
behind(flight, id) ==
    [k \in 1..Len(flight) |->
        IF flight[k].id = id THEN [flight[k] EXCEPT !.stale = TRUE] ELSE flight[k]]

\* The state of the loops of POST /:id/share: the ledger of the loaded
\* document, the two lists of the response and the number of _ids issued.
\* One pass of the loop over emails.
shareEmail(st, email, permissions, sharedBy) ==
    LET user == findUserByEmail(trim(email))
        alreadyShared ==
            \E i \in 1..Len(st.sharedWith) :
                \/ st.sharedWith[i].user # NoUser /\ st.sharedWith[i].user = user
                \/ st.sharedWith[i].email = trim(email)
        pushed ==
            IF ~alreadyShared
            THEN [st EXCEPT
                    !.sharedWith = Append(@, [id |-> st.issued + 1, user |-> user,
                                              email |-> trim(email),
                                              permissions |-> permissions,
                                              sharedBy |-> sharedBy]),
                    !.issued = @ + 1,
                    !.sharedUsers = Append(@, [type |-> "email", value |-> trim(email),
                                               email |-> trim(email),
                                               found |-> user # NoUser])]
            ELSE st
    IN IF user = NoUser
       THEN [pushed EXCEPT !.notFoundUsers =
                Append(@, [type |-> "email", value |-> trim(email)])]
       ELSE pushed

\* One pass of the loop over usernames.
shareUsername(st, username, organization, permissions, sharedBy) ==
    LET user == findUserByUsername(trim(username), organization)
        alreadyShared ==
            \E i \in 1..Len(st.sharedWith) :
                st.sharedWith[i].user # NoUser /\ st.sharedWith[i].user = user
    IN IF user # NoUser
       THEN IF ~alreadyShared
            THEN [st EXCEPT
                    !.sharedWith = Append(@, [id |-> st.issued + 1, user |-> user,
                                              email |-> users[user].email,
                                              permissions |-> permissions,
                                              sharedBy |-> sharedBy]),
                    !.issued = @ + 1,
                    !.sharedUsers = Append(@, [type |-> "username", value |-> trim(username),
                                               email |-> users[user].email,
                                               found |-> TRUE])]
            ELSE st
       ELSE [st EXCEPT !.notFoundUsers =
                Append(@, [type |-> "username", value |-> trim(username)])]

RECURSIVE shareEmails(_, _, _, _)
shareEmails(st, emails, permissions, sharedBy) ==
    IF emails = <<>> THEN st
    ELSE shareEmails(shareEmail(st, Head(emails), permissions, sharedBy),
                     Tail(emails), permissions, sharedBy)

RECURSIVE shareUsernames(_, _, _, _, _)
shareUsernames(st, usernames, organization, permissions, sharedBy) ==
    IF usernames = <<>> THEN st
    ELSE shareUsernames(shareUsername(st, Head(usernames), organization, permissions, sharedBy),
                        Tail(usernames), organization, permissions, sharedBy)

\* POST /:id/share
Share(u, id, body) ==
    /\ u \in DOMAIN users
    /\ IF ~findOwnActive(id, auth(u).userId)
       THEN /\ res' = Response("share", u, id, body, 404, NoBody)
            /\ UNCHANGED <<snippets, nextGrant>>
       ELSE LET permissions == IF Has(body, "permissions") THEN body.permissions ELSE "view"
                emails == IF Has(body, "emails") THEN body.emails ELSE <<>>
                usernames == IF Has(body, "usernames") THEN body.usernames ELSE <<>>
                st0 == [sharedWith |-> snippets[id].sharedWith, issued |-> nextGrant,
                        sharedUsers |-> <<>>, notFoundUsers |-> <<>>]
                st1 == shareEmails(st0, emails, permissions, auth(u).userId)
                st2 == shareUsernames(st1, usernames, auth(u).organization,
                                      permissions, auth(u).userId)
                doc == [snippets[id] EXCEPT !.sharedWith = st2.sharedWith]
            IN /\ st2.issued <= MaxGrants
               /\ IF validate(doc)
                  THEN /\ save(id, doc)
                       /\ nextGrant' = st2.issued
                       /\ res' = Response("share", u, id, body, 200,
                                          [sharedWith |-> st2.sharedUsers,
                                           notFound |-> st2.notFoundUsers,
                                           totalSharedUsers |-> Len(doc.sharedWith)])
                  ELSE /\ res' = Response("share", u, id, body, 500, NoBody)
                       /\ UNCHANGED <<snippets, nextGrant>>
    /\ UNCHANGED <<users, config, env, now, inflight>>

\* POST /:id/share up to its await of snippet.save(): the handler has
\* loaded the document and has pushed the new entries on the ledger of its
\* copy, while other requests are served.
LoadShare(u, id, body) ==
    /\ u \in DOMAIN users
    /\ Len(inflight) < MaxInflight
    /\ findOwnActive(id, auth(u).userId)
    /\ LET permissions == IF Has(body, "permissions") THEN body.permissions ELSE "view"
           emails == IF Has(body, "emails") THEN body.emails ELSE <<>>
           usernames == IF Has(body, "usernames") THEN body.usernames ELSE <<>>
           st0 == [sharedWith |-> snippets[id].sharedWith, issued |-> nextGrant,
                   sharedUsers |-> <<>>, notFoundUsers |-> <<>>]
           st1 == shareEmails(st0, emails, permissions, auth(u).userId)
           st2 == shareUsernames(st1, usernames, auth(u).organization,
                                 permissions, auth(u).userId)
           doc == [snippets[id] EXCEPT !.sharedWith = st2.sharedWith]
           pushed == SubSeq(st2.sharedWith, Len(snippets[id].sharedWith) + 1,
                            Len(st2.sharedWith))
       IN /\ st2.issued <= MaxGrants
          /\ nextGrant' = st2.issued
          /\ inflight' = Append(inflight,
                                [op |-> "share", user |-> u, id |-> id, req |-> body,
                                 doc |-> doc,
                                 work |-> [pushed |-> pushed,
                                           out |-> [sharedWith |-> st2.sharedUsers,
                                                    notFound |-> st2.notFoundUsers,
                                                    totalSharedUsers |-> Len(doc.sharedWith)]],
                                 stale |-> FALSE])
    /\ UNCHANGED <<users, snippets, config, env, now, res>>

\* The rest of POST /:id/share: save() validates the copy and pushes the
\* new entries on the stored ledger (the pushes of the copy reach the store
\* as $push, with no condition on the version).
SaveShare(k) ==
    /\ k \in 1..Len(inflight)
    /\ inflight[k].op = "share"
    /\ LET loaded == inflight[k]
       IN IF validate(loaded.doc)
          THEN /\ snippets' = [snippets EXCEPT
                                  ![loaded.id].sharedWith = @ \o loaded.work.pushed]
               /\ res' = Response("share", loaded.user, loaded.id, loaded.req, 200,
                                  loaded.work.out)
               /\ inflight' = IF loaded.work.pushed = <<>>
                               THEN landed(inflight, k)
                               ELSE behind(landed(inflight, k), loaded.id)
          ELSE /\ res' = Response("share", loaded.user, loaded.id, loaded.req, 500, NoBody)
               /\ inflight' = landed(inflight, k)
               /\ UNCHANGED snippets
    /\ UNCHANGED <<users, nextGrant, config, env, now>>

\* DELETE /:id/share/:shareEntryId
Unshare(u, id, shareEntryId) ==
    /\ u \in DOMAIN users
    /\ IF ~findOwnActive(id, auth(u).userId)
       THEN /\ res' = Response("unshare", u, id, [shareEntryId |-> shareEntryId], 404, NoBody)
            /\ UNCHANGED snippets
       ELSE LET keep(share) == share.id # shareEntryId
            IN /\ save(id, [snippets[id] EXCEPT !.sharedWith = SelectSeq(@, keep)])
               /\ res' = Response("unshare", u, id, [shareEntryId |-> shareEntryId], 200, NoBody)
    /\ UNCHANGED <<users, nextGrant, config, env, now, inflight>>

----------------------------------------------------------------------------
(* server/routes/snippets.js: live viewers                                 *)

\* The access decision of POST /:id/join-view: the request is answered 403.
joinViewDenied(doc, reqUser) ==
    LET isAuthor == doc.author = reqUser.userId
        hasOrgAccess == doc.visibility = "organization" /\
                        doc.organization = reqUser.organization
        isPublic == doc.visibility = "public"
    IN ~isAuthor /\ ~isSharedUser(doc, reqUser.userId) /\ ~hasOrgAccess /\ ~isPublic

\* withoutViewer that removes no entry.
withoutViewer_KeepAll(viewers, userId) == viewers

\* currentViewers.filter(viewer => viewer.user.toString() !== req.user.userId)
withoutViewer(viewers, userId) ==
    LET other(viewer) == viewer.user # userId
    IN SelectSeq(viewers, other)

\* POST /:id/join-view
JoinView(u, id, socketId) ==
    /\ u \in DOMAIN users
    /\ IF ~findActive(id)
       THEN /\ res' = Response("joinView", u, id, [socketId |-> socketId], 404, NoBody)
            /\ UNCHANGED snippets
       ELSE IF joinViewDenied(snippets[id], auth(u))
       THEN /\ res' = Response("joinView", u, id, [socketId |-> socketId], 403, NoBody)
            /\ UNCHANGED snippets
       ELSE LET joined == Append(withoutViewer(snippets[id].currentViewers, auth(u).userId),
                                 [user |-> auth(u).userId, lastSeen |-> now,
                                  socketId |-> socketId])
                doc == cleanupViewers([snippets[id] EXCEPT !.currentViewers = joined])
            IN /\ save(id, doc)
               /\ res' = Response("joinView", u, id, [socketId |-> socketId], 200,
                                  [currentViewers |-> doc.currentViewers])
    /\ UNCHANGED <<users, nextGrant, config, env, now, inflight>>

\* versionError of a save that carries no version condition.
versionError_Never(loaded) == FALSE

\* this.save() of a copy whose currentViewers array was replaced: the update
\* is conditioned on the version the copy was loaded with, and throws
\* (VersionError) when the stored document has a later version.
versionError(loaded) == loaded.stale

\* POST /:id/join-view up to the save of cleanupViewers: the handler has
\* loaded the document and has rebuilt currentViewers on its copy, while
\* other requests are served.
LoadJoinView(u, id, socketId) ==
    /\ u \in DOMAIN users
    /\ Len(inflight) < MaxInflight
    /\ findActive(id)
    /\ ~joinViewDenied(snippets[id], auth(u))
    /\ LET joined == Append(withoutViewer(snippets[id].currentViewers, auth(u).userId),
                            [user |-> auth(u).userId, lastSeen |-> now,
                             socketId |-> socketId])
           doc == cleanupViewers([snippets[id] EXCEPT !.currentViewers = joined])
       IN inflight' = Append(inflight,
                             [op |-> "joinView", user |-> u, id |-> id,
                              req |-> [socketId |-> socketId], doc |-> doc,
                              work |-> NoBody, stale |-> FALSE])
    /\ UNCHANGED <<users, snippets, nextGrant, config, env, now, res>>

\* The rest of POST /:id/join-view: the save writes currentViewers of the
\* copy over the stored array, or throws and the handler answers 500.
SaveJoinView(k) ==
    /\ k \in 1..Len(inflight)
    /\ inflight[k].op = "joinView"
    /\ LET loaded == inflight[k]
       IN IF versionError(loaded)
          THEN /\ res' = Response("joinView", loaded.user, loaded.id, loaded.req, 500, NoBody)
               /\ inflight' = landed(inflight, k)
               /\ UNCHANGED snippets
          ELSE /\ snippets' = [snippets EXCEPT
                                  ![loaded.id].currentViewers = loaded.doc.currentViewers]
               /\ res' = Response("joinView", loaded.user, loaded.id, loaded.req, 200,
                                  [currentViewers |-> loaded.doc.currentViewers])
               /\ inflight' = behind(landed(inflight, k), loaded.id)
    /\ UNCHANGED <<users, nextGrant, config, env, now>>

\* POST /:id/leave-view
LeaveView(u, id) ==
    /\ u \in DOMAIN users
    /\ IF ~findActive(id)
       THEN /\ res' = Response("leaveView", u, id, NoBody, 404, NoBody)
            /\ UNCHANGED snippets
       ELSE /\ save(id, [snippets[id] EXCEPT
                            !.currentViewers = withoutViewer(@, auth(u).userId)])
            /\ res' = Response("leaveView", u, id, NoBody, 200, NoBody)
    /\ UNCHANGED <<users, nextGrant, config, env, now, inflight>>

\* GET /:id/viewers
GetViewers(u, id) ==
    /\ u \in DOMAIN users
    /\ IF ~findActive(id)
       THEN /\ res' = Response("getViewers", u, id, NoBody, 404, NoBody)
            /\ UNCHANGED snippets
       ELSE LET doc == cleanupViewers(snippets[id])
            IN /\ save(id, doc)
               /\ res' = Response("getViewers", u, id, NoBody, 200,
                                  [currentViewers |-> doc.currentViewers])
    /\ UNCHANGED <<users, nextGrant, config, env, now, inflight>>

\* Date.now() advances by one minute.
Tick ==
    /\ now < MaxTime
    /\ now' = now + 1
    /\ UNCHANGED <<users, snippets, nextGrant, config, env, res, inflight>>

----------------------------------------------------------------------------
(* server/routes/snippets.js: lists and search.  The result of a list is   *)
(* the set of the ids of the snippets it returns; page and limit keep      *)
(* their defaults, so one page holds every result.                         *)

\* GET /my
mySnippets(reqUser) ==
    {i \in 1..Len(snippets) : snippets[i].author = reqUser.userId /\ snippets[i].isActive}

\* GET /org
orgSnippets(reqUser) ==
    {i \in 1..Len(snippets) :
        /\ snippets[i].organization = reqUser.organization
        /\ snippets[i].visibility \in {"organization", "public"}
        /\ snippets[i].isActive}

\* GET /shared-with-me
sharedWithMe(reqUser) ==
    {i \in 1..Len(snippets) :
        /\ \E k \in 1..Len(snippets[i].sharedWith) :
               snippets[i].sharedWith[k].user = reqUser.userId
        /\ snippets[i].isActive}

\* new RegExp(author.trim(), 'i') tested on a username: the username holds
\* the pattern, whatever the case of the letters.
authorRegExp(pattern, username) ==
    \/ pattern = username
    \/ pattern = "ALI" /\ username = "alice"
    \/ pattern = "o" /\ username \in {"bob", "carol"}

\* searchVisible with the private snippets of every author.
searchVisible_AnyPrivate(doc, reqUser) ==
    \/ doc.visibility = "public"
    \/ doc.visibility = "organization"
    \/ doc.visibility = "private"

\* The visibility conditions of the queries of GET /search and GET /stats.
searchVisible(doc, reqUser) ==
    \/ doc.visibility = "public"
    \/ doc.visibility = "organization"
    \/ doc.visibility = "private" /\ doc.author = reqUser.userId

\* GET /search with the query parameters language and author (q and tags
\* are not given).
searchSnippets(reqUser, query) ==
    LET language == IF Has(query, "language") THEN query.language ELSE "all"
        byAuthor == Has(query, "author")
        authors == IF byAuthor
                   THEN {a \in DOMAIN users :
                            /\ authorRegExp(trim(query.author), users[a].username)
                            /\ users[a].organization = reqUser.organization}
                   ELSE {}
        \* findOne returns the first match in the order of insertion
        authorUser == IF authors = {} THEN NoUser
                      ELSE CHOOSE a \in authors : \A b \in authors : a <= b
    IN IF byAuthor /\ authorUser = NoUser
       THEN {}
       ELSE {i \in 1..Len(snippets) :
                /\ snippets[i].organization = reqUser.organization
                /\ snippets[i].isActive
                /\ language # "all" => snippets[i].language = language
                /\ byAuthor => snippets[i].author = authorUser
                /\ searchVisible(snippets[i], reqUser)}

ListMy(u) ==
    /\ u \in DOMAIN users
    /\ res' = Response("listMy", u, 0, NoBody, 200, [snippets |-> mySnippets(auth(u))])
    /\ UNCHANGED <<users, snippets, nextGrant, config, env, now, inflight>>

ListOrg(u) ==
    /\ u \in DOMAIN users
    /\ res' = Response("listOrg", u, 0, NoBody, 200, [snippets |-> orgSnippets(auth(u))])
    /\ UNCHANGED <<users, snippets, nextGrant, config, env, now, inflight>>

SharedWithMe(u) ==
    /\ u \in DOMAIN users
    /\ res' = Response("sharedWithMe", u, 0, NoBody, 200,
                      [snippets |-> sharedWithMe(auth(u))])
    /\ UNCHANGED <<users, snippets, nextGrant, config, env, now, inflight>>

Search(u, query) ==
    /\ u \in DOMAIN users
    /\ res' = Response("search", u, 0, query, 200,
                      [snippets |-> searchSnippets(auth(u), query)])
    /\ UNCHANGED <<users, snippets, nextGrant, config, env, now, inflight>>

----------------------------------------------------------------------------
(* server/routes/auth.js                                                   *)

\* POST /register
Register(body) ==
    IF getConfigThrows(config, env)
    THEN /\ res' = Response("register", NoUser, 0, body, 500, NoBody)
         /\ UNCHANGED <<users, snippets, nextGrant, config, env, now, inflight>>
    ELSE LET c == getConfig(config, env)
         IN /\ config' = c
            /\ IF c.authMode = "azure_ad"
               THEN /\ res' = Response("register", NoUser, 0, body, 403, NoBody)
                    /\ UNCHANGED users
               ELSE IF c.authMode # "local" \/ ~c.allowRegistration
               THEN /\ res' = Response("register", NoUser, 0, body, 403, NoBody)
                    /\ UNCHANGED users
               ELSE IF \E e \in DOMAIN users : \/ users[e].email = body.email
                                                \/ users[e].username = body.username
               THEN /\ res' = Response("register", NoUser, 0, body, 400, NoBody)
                    /\ UNCHANGED users
               ELSE LET id == Cardinality(DOMAIN users) + 1
                        user == userSchema(body.username, body.email,
                                           IF Has(body, "organization")
                                           THEN body.organization
                                           ELSE c.defaultOrganization)
                    IN /\ users' = [x \in DOMAIN users \cup {id} |->
                                       IF x = id THEN user ELSE users[x]]
                       /\ res' = Response("register", id, 0, body, 201, [user |-> user])
            /\ UNCHANGED <<snippets, nextGrant, env, now, inflight>>

\* The gate of POST /login.
localLoginDenied(c) == c.authMode # "local"

\* POST /login; matches is the outcome of comparePassword for the user
\* found.
Login(email, matches) ==
    IF getConfigThrows(config, env)
    THEN /\ res' = Response("login", NoUser, 0, [email |-> email], 500, NoBody)
         /\ UNCHANGED <<users, snippets, nextGrant, config, env, now, inflight>>
    ELSE LET c == getConfig(config, env)
             found == {u \in DOMAIN users : /\ users[u].email = email
                                            /\ users[u].isActive
                                            /\ users[u].authProvider = "local"}
         IN /\ config' = c
            /\ IF localLoginDenied(c)
               THEN res' = Response("login", NoUser, 0, [email |-> email], 403, NoBody)
               ELSE IF found = {} \/ ~matches
               THEN res' = Response("login", NoUser, 0, [email |-> email], 401, NoBody)
               ELSE LET u == CHOOSE x \in found : TRUE
                    IN res' = Response("login", u, 0, [email |-> email], 200,
                                       [user |-> users[u]])
            /\ UNCHANGED <<users, snippets, nextGrant, env, now, inflight>>

\* The gate of POST /azure/login.
azureLoginDenied(c) == c.authMode # "azure_ad" \/ ~c.azureAdEnabled

\* POST /azure/login; outcome is what the requests to Microsoft bring: the
\* credentials are rejected, the request fails, or the profile of the user
\* ([mail, displayName]).
AzureLogin(outcome) ==
    IF getConfigThrows(config, env)
    THEN /\ res' = Response("azureLogin", NoUser, 0, NoBody, 500, NoBody)
         /\ UNCHANGED <<users, snippets, nextGrant, config, env, now, inflight>>
    ELSE LET c == getConfig(config, env)
         IN /\ config' = c
            /\ IF azureLoginDenied(c)
               THEN /\ res' = Response("azureLogin", NoUser, 0, NoBody, 403, NoBody)
                    /\ UNCHANGED users
               ELSE IF outcome = [rejected |-> TRUE]
               THEN /\ res' = Response("azureLogin", NoUser, 0, NoBody, 401, NoBody)
                    /\ UNCHANGED users
               ELSE IF outcome = [failed |-> TRUE]
               THEN /\ res' = Response("azureLogin", NoUser, 0, NoBody, 500, NoBody)
                    /\ UNCHANGED users
               ELSE LET found == {u \in DOMAIN users : users[u].email = outcome.mail}
                    IN IF found = {}
                       THEN LET id == Cardinality(DOMAIN users) + 1
                                user == [username |-> outcome.displayName,
                                         email |-> outcome.mail,
                                         organization |-> c.defaultOrganization,
                                         role |-> "user", isActive |-> TRUE,
                                         authProvider |-> "azure_ad"]
                            IN /\ users' = [x \in DOMAIN users \cup {id} |->
                                               IF x = id THEN user ELSE users[x]]
                               /\ res' = Response("azureLogin", id, 0, outcome, 200,
                                                  [user |-> user])
                       ELSE LET u == CHOOSE x \in found : TRUE
                                user == [users[u] EXCEPT !.username = outcome.displayName]
                            IN /\ users' = [users EXCEPT ![u] = user]
                               /\ res' = Response("azureLogin", u, 0, outcome, 200,
                                                  [user |-> user])
            /\ UNCHANGED <<snippets, nextGrant, env, now, inflight>>

\* GET /api/auth/config
AuthConfig ==
    /\ IF getConfigThrows(config, env)
       THEN /\ res' = Response("authConfig", NoUser, 0, NoBody, 200,
                               [config |-> appConfigSchema])
            /\ UNCHANGED config
       ELSE /\ config' = getConfig(config, env)
            /\ res' = Response("authConfig", NoUser, 0, NoBody, 200,
                               [config |-> config'])
    /\ UNCHANGED <<users, snippets, nextGrant, env, now, inflight>>

----------------------------------------------------------------------------
(* server/routes/admin.js                                                  *)

\* requireAdmin
requireAdmin(u) == u \in DOMAIN users /\ users[u].role = "admin"

\* GET /config
GetConfig(u) ==
    /\ u \in DOMAIN users
    /\ IF ~requireAdmin(u)
       THEN /\ res' = Response("getConfig", u, 0, NoBody, 403, NoBody)
            /\ UNCHANGED config
       ELSE IF getConfigThrows(config, env)
       THEN /\ res' = Response("getConfig", u, 0, NoBody, 500, NoBody)
            /\ UNCHANGED config
       ELSE /\ config' = getConfig(config, env)
            /\ res' = Response("getConfig", u, 0, NoBody, 200, [config |-> config'])
    /\ UNCHANGED <<users, snippets, nextGrant, env, now, inflight>>

\* The assignments of PUT /config: a field is assigned when the body gives
\* it (a string that is not empty, a boolean).
assignConfig(c, body) ==
    [authMode |-> IF Has(body, "authMode") /\ body.authMode # ""
                  THEN body.authMode ELSE c.authMode,
     allowRegistration |-> IF Has(body, "allowRegistration")
                           THEN body.allowRegistration ELSE c.allowRegistration,
     defaultOrganization |-> IF Has(body, "defaultOrganization") /\ body.defaultOrganization # ""
                             THEN body.defaultOrganization ELSE c.defaultOrganization,
     azureAdEnabled |-> IF Has(body, "azureAd") /\ Has(body.azureAd, "enabled")
                        THEN body.azureAd.enabled ELSE c.azureAdEnabled]

\* PUT /config
UpdateConfig(u, body) ==
    /\ u \in DOMAIN users
    /\ IF ~requireAdmin(u)
       THEN /\ res' = Response("updateConfig", u, 0, body, 403, NoBody)
            /\ UNCHANGED config
       ELSE IF getConfigThrows(config, env)
       THEN /\ res' = Response("updateConfig", u, 0, body, 500, NoBody)
            /\ UNCHANGED config
       ELSE LET c == assignConfig(getConfig(config, env), body)
            IN IF validateConfig(c)
               THEN /\ config' = c
                    /\ res' = Response("updateConfig", u, 0, body, 200, NoBody)
               ELSE /\ config' = getConfig(config, env)
                    /\ res' = Response("updateConfig", u, 0, body, 500, NoBody)
    /\ UNCHANGED <<users, snippets, nextGrant, env, now, inflight>>

----------------------------------------------------------------------------
(* The requests of the clients                                             *)

SnippetIds == 1..MaxSnippets
GrantIds == 1..MaxGrants

CreateBodies ==
    {[title |-> "t1", language |-> "python", visibility |-> v] : v \in Visibilities}
    \cup {[title |-> "t1"], [language |-> "python"]}

\* Bodies of the fields the edit form sends.
FormBodies ==
    {[visibility |-> v] : v \in Visibilities}

\* Bodies that carry other fields of the document.
RawBodies ==
    {[isActive |-> FALSE], [views |-> 0], [sharedWith |-> <<>>], [visibility |-> "secret"]}

ShareBodies ==
    {[usernames |-> <<"bob">>, permissions |-> p] : p \in Permissions}
    \cup {[emails |-> <<"carol@b.com">>]}

Queries ==
    {[language |-> "python"], [language |-> "all", author |-> "ALI"], [author |-> "zed"]}

Init ==
    /\ users = InitialUsers
    /\ snippets = <<>>
    /\ nextGrant = 0
    /\ config = appConfigSchema
    /\ env = [AUTH_MODE |-> "", AZURE_AD |-> FALSE, DEFAULT_ORGANIZATION |-> ""]
    /\ now = 0
    /\ res = Response("none", NoUser, 0, NoBody, 0, NoBody)
    /\ inflight = <<>>

Requesters == DOMAIN users
Creators == {1}

Next ==
    \/ \E u \in Creators, body \in CreateBodies : Create(u, body)
    \/ \E u \in Requesters, id \in SnippetIds : GetById(u, id)
    \/ \E u \in Requesters \cup {NoUser}, shareId \in SnippetIds : GetByShareId(u, shareId)
    \/ \E u \in Requesters, id \in SnippetIds, body \in FormBodies \cup RawBodies :
          Update(u, id, body)
    \/ \E u \in Requesters, id \in SnippetIds : Delete(u, id)
    \/ \E u \in Requesters, id \in SnippetIds, body \in ShareBodies : Share(u, id, body)
    \/ \E u \in Requesters, id \in SnippetIds, g \in GrantIds : Unshare(u, id, g)
    \/ \E u \in Requesters : ListMy(u)
    \/ \E u \in Requesters : ListOrg(u)
    \/ \E u \in Requesters : SharedWithMe(u)
    \/ \E u \in Requesters, query \in Queries : Search(u, query)

Spec == Init /\ [][Next]_vars

\* The requests on one snippet and its viewers, without the lists.
NextViewers ==
    \/ \E u \in Creators, body \in CreateBodies : Create(u, body)
    \/ \E u \in Requesters, id \in SnippetIds : GetById(u, id)
    \/ \E u \in Requesters \cup {NoUser}, shareId \in SnippetIds : GetByShareId(u, shareId)
    \/ \E u \in Requesters, id \in SnippetIds : Update(u, id, [visibility |-> "public"])
    \/ \E u \in Requesters, id \in SnippetIds : Delete(u, id)
    \/ \E u \in Requesters, id \in SnippetIds : Share(u, id, [usernames |-> <<"bob">>])
    \/ \E u \in Requesters, id \in SnippetIds, g \in GrantIds : Unshare(u, id, g)
    \/ \E u \in Requesters, id \in SnippetIds : JoinView(u, id, "s1")
    \/ \E u \in Requesters, id \in SnippetIds : LeaveView(u, id)
    \/ \E u \in Requesters, id \in SnippetIds : GetViewers(u, id)

SpecViewers == Init /\ [][NextViewers]_vars

\* The requests on the sharing ledger of a snippet, and the registrations.
LedgerBodies ==
    {[emails |-> <<"dave@a.com">>],
     [emails |-> <<" dave@a.com ", "bob@a.com">>, permissions |-> "edit"],
     [usernames |-> <<"dave">>],
     [usernames |-> <<" bob ", "zed">>],
     [emails |-> <<"bob@a.com">>, usernames |-> <<"bob">>],
     [emails |-> <<"carol@b.com">>, permissions |-> "admin"]}

RegisterBodies ==
    {[username |-> "dave", email |-> "dave@a.com", organization |-> "OrgA"],
     [username |-> "bob", email |-> "bob2@a.com"]}

NextLedger ==
    \/ \E u \in Creators : Create(u, [title |-> "t1"])
    \/ \E u \in {1, 2}, id \in SnippetIds, body \in LedgerBodies : Share(u, id, body)
    \/ \E u \in {1, 2}, id \in SnippetIds, g \in GrantIds : Unshare(u, id, g)
    \/ \E body \in RegisterBodies : Register(body)
    \/ \E u \in Requesters, id \in SnippetIds : GetById(u, id)
    \/ \E u \in Requesters : SharedWithMe(u)

SpecLedger == Init /\ [][NextLedger]_vars

\* The viewers of one snippet as the minutes pass.
SocketIds == {"s1", "s2"}
Watched == {1}

NextPresence ==
    \/ \E u \in Creators : Create(u, [title |-> "t1", visibility |-> "organization"])
    \/ \E u \in Requesters, id \in Watched, socketId \in SocketIds :
          JoinView(u, id, socketId)
    \/ \E u \in Requesters, id \in Watched : LeaveView(u, id)
    \/ \E u \in Requesters, id \in Watched : GetViewers(u, id)
    \/ \E u \in Requesters, id \in Watched : GetById(u, id)
    \/ Tick

SpecPresence == Init /\ [][NextPresence]_vars

\* The snippets of every user and the searches over them.
SearchBodies ==
    {[title |-> "t1", language |-> "python", visibility |-> v] : v \in Visibilities}
    \cup {[title |-> "t1"]}

SearchQueries ==
    {[language |-> "all"], [language |-> "python"], [language |-> "all", author |-> "ALI"],
     [language |-> "python", author |-> "o"], [author |-> "zed"]}

NextSearch ==
    \/ \E u \in Requesters, body \in SearchBodies : Create(u, body)
    \/ \E u \in Requesters, id \in SnippetIds, body \in FormBodies : Update(u, id, body)
    \/ \E u \in Requesters, id \in SnippetIds : Delete(u, id)
    \/ \E u \in Requesters, id \in SnippetIds :
          Share(u, id, [usernames |-> <<"alice", "bob">>])
    \/ \E u \in Requesters, query \in SearchQueries : Search(u, query)

SpecSearch == Init /\ [][NextSearch]_vars

\* Two stored snippets, as a create call of alice and a create call of bob
\* leave them, and the requests that carry a shareId.
ShareIds == 1..3

InitStored ==
    /\ users = InitialUsers
    /\ snippets = <<snippetSchema([title |-> "t1"], 1, "OrgA", 1),
                    snippetSchema([title |-> "t2", visibility |-> "public"], 2, "OrgA", 2)>>
    /\ nextGrant = 0
    /\ config = appConfigSchema
    /\ env = [AUTH_MODE |-> "", AZURE_AD |-> FALSE, DEFAULT_ORGANIZATION |-> ""]
    /\ now = 0
    /\ res = Response("none", NoUser, 0, NoBody, 0, NoBody)
    /\ inflight = <<>>

NextShareId ==
    \/ \E u \in Requesters, id \in DOMAIN snippets, shareId \in ShareIds :
          Update(u, id, [shareId |-> shareId])
    \/ \E u \in Requesters, id \in DOMAIN snippets : Delete(u, id)
    \/ \E u \in Requesters \cup {NoUser}, shareId \in ShareIds : GetByShareId(u, shareId)

SpecShareId == InitStored /\ [][NextShareId]_vars

\* The share-link requests on one snippet, some of them overlapping.
NextViews ==
    \/ \E u \in Creators, body \in CreateBodies : Create(u, body)
    \/ \E u \in Requesters, id \in SnippetIds, body \in FormBodies : Update(u, id, body)
    \/ \E u \in Requesters, id \in SnippetIds : Delete(u, id)
    \/ \E u \in Requesters \cup {NoUser}, shareId \in SnippetIds : GetByShareId(u, shareId)
    \/ \E u \in Requesters \cup {NoUser}, shareId \in SnippetIds : LoadByShareId(u, shareId)
    \/ \E k \in 1..MaxInflight : SaveByShareId(k)

SpecViews == Init /\ [][NextViews]_vars

\* A deployment whose user store is empty, and the registrations in it.
InitEmpty ==
    /\ users = <<>>
    /\ snippets = <<>>
    /\ nextGrant = 0
    /\ config = appConfigSchema
    /\ env = [AUTH_MODE |-> "", AZURE_AD |-> FALSE, DEFAULT_ORGANIZATION |-> ""]
    /\ now = 0
    /\ res = Response("none", NoUser, 0, NoBody, 0, NoBody)
    /\ inflight = <<>>

FirstBodies ==
    {[username |-> "alice", email |-> "alice@a.com", organization |-> "OrgA"],
     [username |-> "bob", email |-> "bob@a.com", organization |-> "OrgA"],
     [username |-> "carol", email |-> "carol@b.com", organization |-> "OrgB"],
     [username |-> "dave", email |-> "dave@a.com"],
     [username |-> "bob", email |-> "bob2@a.com"]}

NextFirstUser ==
    \E body \in FirstBodies : Register(body)

SpecFirstUser == InitEmpty /\ [][NextFirstUser]_vars

\* Join-view requests on one snippet that overlap, and the requests that
\* are served while no other request is in flight.
ForgedViewers ==
    <<[user |-> 2, lastSeen |-> 0, socketId |-> "s1"],
      [user |-> 2, lastSeen |-> 0, socketId |-> "s2"]>>

NextOverlap ==
    \/ \E u \in Creators : Create(u, [title |-> "t1", visibility |-> "organization"])
    \/ \E u \in Requesters, id \in Watched, socketId \in SocketIds :
          LoadJoinView(u, id, socketId)
    \/ \E k \in 1..MaxInflight : SaveJoinView(k)
    \/ \E u \in Requesters, id \in Watched : inflight = <<>> /\ GetViewers(u, id)
    \/ \E u \in Requesters, id \in Watched : inflight = <<>> /\ GetById(u, id)
    \/ \E u \in Requesters, id \in Watched : inflight = <<>> /\ LeaveView(u, id)
    \/ \E u \in Requesters, id \in Watched :
          inflight = <<>> /\ Update(u, id, [currentViewers |-> ForgedViewers])

SpecOverlap == Init /\ [][NextOverlap]_vars

\* Share requests of the owner on one snippet that overlap.
OverlapShareBodies ==
    {[emails |-> <<"dave@a.com">>], [emails |-> <<"bob@a.com">>],
     [usernames |-> <<"bob">>, permissions |-> "edit"],
     [emails |-> <<"carol@b.com">>, permissions |-> "admin"]}

NextShareOverlap ==
    \/ \E u \in Creators : Create(u, [title |-> "t1"])
    \/ \E u \in Requesters, id \in SnippetIds, body \in OverlapShareBodies :
          LoadShare(u, id, body)
    \/ \E k \in 1..MaxInflight : SaveShare(k)
    \/ \E u \in Requesters, id \in SnippetIds, g \in GrantIds :
          inflight = <<>> /\ Unshare(u, id, g)
    \/ \E u \in Requesters, id \in SnippetIds : inflight = <<>> /\ GetById(u, id)
    \/ \E u \in Requesters, id \in SnippetIds : inflight = <<>> /\ JoinView(u, id, "s1")
    \/ \E u \in Requesters : inflight = <<>> /\ SharedWithMe(u)

SpecShareOverlap == Init /\ [][NextShareOverlap]_vars

\* Request bodies of update that name the active flag, and every route
\* that takes a snippet id.
ReviveBodies ==
    {[isActive |-> TRUE], [isActive |-> TRUE, visibility |-> "public"],
     [isActive |-> FALSE], [title |-> "t2"]}

NextRevive ==
    \/ \E u \in Creators, body \in CreateBodies : Create(u, body)
    \/ \E u \in Requesters, id \in SnippetIds, body \in ReviveBodies : Update(u, id, body)
    \/ \E u \in Requesters, id \in SnippetIds : Delete(u, id)
    \/ \E u \in Requesters, id \in SnippetIds : GetById(u, id)
    \/ \E u \in Requesters \cup {NoUser}, shareId \in SnippetIds : GetByShareId(u, shareId)
    \/ \E u \in Requesters, id \in SnippetIds : Share(u, id, [usernames |-> <<"bob">>])
    \/ \E u \in Requesters, id \in SnippetIds, g \in GrantIds : Unshare(u, id, g)
    \/ \E u \in Requesters, id \in SnippetIds : JoinView(u, id, "s1")
    \/ \E u \in Requesters, id \in SnippetIds : LeaveView(u, id)
    \/ \E u \in Requesters, id \in SnippetIds : GetViewers(u, id)

SpecRevive == Init /\ [][NextRevive]_vars

\* The environments of a deployment, the bodies of PUT /config and what
\* Microsoft answers to a login.
Envs ==
    [AUTH_MODE : {"", "local", "azure_ad"}, AZURE_AD : BOOLEAN,
     DEFAULT_ORGANIZATION : {""}]

ConfigBodies ==
    {[allowRegistration |-> FALSE], [allowRegistration |-> TRUE],
     [authMode |-> "azure_ad"], [authMode |-> "local"],
     [authMode |-> "azure_ad", azureAd |-> [enabled |-> TRUE]],
     [azureAd |-> [enabled |-> FALSE]], [authMode |-> "ldap"]}

AzureOutcomes ==
    {[rejected |-> TRUE], [failed |-> TRUE],
     [mail |-> "erin@a.com", displayName |-> "erin"],
     [mail |-> "bob@a.com", displayName |-> "bob"]}

\* The server has started in some environment and has created the
\* configuration document from it.
InitConfig ==
    /\ users = InitialUsers
    /\ snippets = <<>>
    /\ nextGrant = 0
    /\ env \in Envs
    /\ ~newConfigThrows(env)
    /\ config = newConfig(env)
    /\ now = 0
    /\ res = Response("none", NoUser, 0, NoBody, 0, NoBody)
    /\ inflight = <<>>

NextConfig ==
    \/ \E u \in Requesters, body \in ConfigBodies : UpdateConfig(u, body)
    \/ \E u \in Requesters : GetConfig(u)
    \/ AuthConfig
    \/ \E body \in RegisterBodies : Register(body)
    \/ \E email \in {"alice@a.com", "erin@a.com"}, matches \in BOOLEAN : Login(email, matches)
    \/ \E outcome \in AzureOutcomes : AzureLogin(outcome)

SpecConfig == InitConfig /\ [][NextConfig]_vars

----------------------------------------------------------------------------
(* Properties                                                              *)

Exists(id) == id \in 1..Len(snippets)
ReturnsSnippet(r) == r.status = 200 /\ "snippet" \in DOMAIN r.out

\* The ledger of doc holds an entry that names user u, by id or by email.
Named(doc, u) ==
    \E k \in 1..Len(doc.sharedWith) :
        \/ doc.sharedWith[k].user = u
        \/ doc.sharedWith[k].email = users[u].email

\* The ledger of doc holds an entry for user u with permission p.
Granted(doc, u, p) ==
    \E k \in 1..Len(doc.sharedWith) :
        doc.sharedWith[k].user = u /\ doc.sharedWith[k].permissions = p

\* C1: get-by-id of an active snippet with visibility organization returns
\* the snippet to a requester of the snippet's organization and answers 403
\* to a requester of another organization who is not the owner and is not
\* named in a share grant.
C1_OrganizationById ==
    (/\ res.op = "getById" /\ Exists(res.id)
     /\ snippets[res.id].isActive /\ snippets[res.id].visibility = "organization")
    => LET doc == snippets[res.id]
           requester == users[res.user]
       IN /\ requester.organization = doc.organization => ReturnsSnippet(res)
          /\ (/\ requester.organization # doc.organization
              /\ doc.author # res.user /\ ~Named(doc, res.user))
             => res.status = 403 /\ ~ReturnsSnippet(res)

\* C2: get-by-id of a private snippet by a requester who is not the owner
\* and is not named by user id in a share grant is answered 403 or 404 and
\* never returns the snippet.
C2_PrivateByIdDenied ==
    (/\ res.op = "getById" /\ Exists(res.id)
     /\ snippets[res.id].visibility = "private"
     /\ snippets[res.id].author # res.user
     /\ ~isSharedUser(snippets[res.id], res.user))
    => res.status \in {403, 404} /\ ~ReturnsSnippet(res)

\* A same-organization user who holds no grant was refused a private snippet.
C2_Witness ==
    /\ res.op = "getById" /\ Exists(res.id) /\ res.status = 403
    /\ snippets[res.id].visibility = "private" /\ snippets[res.id].isActive
    /\ users[res.user].organization = snippets[res.id].organization
    /\ snippets[res.id].sharedWith # <<>>

\* C3: get-by-share-id of an active private snippet returns the snippet to
\* an authenticated requester of the snippet's organization, answers 403 to
\* an authenticated requester of another organization, and never returns
\* the snippet to an anonymous requester.
C3_PrivateByShareId ==
    res.op = "getByShareId" =>
        \A i \in 1..Len(snippets) :
            (/\ snippets[i].shareId = res.id /\ snippets[i].isActive
             /\ snippets[i].visibility = "private")
            => /\ (res.user # NoUser /\
                   users[res.user].organization = snippets[i].organization)
                  => ReturnsSnippet(res) /\ res.out.snippet = snippets[i]
               /\ (res.user # NoUser /\
                   users[res.user].organization # snippets[i].organization)
                  => res.status = 403 /\ ~ReturnsSnippet(res)
               /\ res.user = NoUser => ~ReturnsSnippet(res)

\* A same-organization user who is not the owner and holds no grant has read
\* a private snippet by its share id.
C3_Witness ==
    /\ res.op = "getByShareId" /\ ReturnsSnippet(res)
    /\ res.out.snippet.visibility = "private"
    /\ res.user # NoUser /\ res.out.snippet.author # res.user
    /\ ~isSharedUser(res.out.snippet, res.user)

\* C4: an update of an active snippet by a requester who is not the owner
\* succeeds if and only if the ledger holds a grant that names the requester
\* with permission edit.
C4_EditGrantUpdates ==
    (/\ res.op = "update" /\ Exists(res.id)
     /\ snippets[res.id].isActive /\ snippets[res.id].author # res.user)
    => (res.status = 200 <=> Granted(snippets[res.id], res.user, "edit"))

\* C5: a successful update leaves shareId, owner, organization, active flag,
\* view counter, sharing ledger and presence set as they were.
C5_UpdateFrame ==
    [][(res'.op = "update" /\ res'.status = 200)
       => \A f \in {"shareId", "author", "organization", "isActive", "views",
                     "sharedWith", "currentViewers"} :
              snippets'[res'.id][f] = snippets[res'.id][f]]_vars

\* C6: share, unshare and soft-delete of an active snippet by a requester
\* who is not its owner are rejected and leave the ledger and the active
\* flag unchanged.
C6_OwnerOnly ==
    [][(/\ res'.op \in {"share", "unshare", "delete"} /\ Exists(res'.id)
        /\ snippets[res'.id].isActive /\ snippets[res'.id].author # res'.user)
       => /\ res'.status \in {403, 404}
          /\ snippets'[res'.id].sharedWith = snippets[res'.id].sharedWith
          /\ snippets'[res'.id].isActive = snippets[res'.id].isActive]_vars

\* A user who holds an edit grant on a snippet was refused one of the three.
C6_Witness ==
    /\ res.op \in {"share", "unshare", "delete"} /\ Exists(res.id)
    /\ res.status = 404
    /\ snippets[res.id].isActive /\ snippets[res.id].author # res.user
    /\ Granted(snippets[res.id], res.user, "edit")

\* C7: a soft-deleted snippet stays soft-deleted, get-by-id of it answers 404
\* to every caller, and no list (mine, organization, shared-with-me, search)
\* returns it.
C7_DeletedIsGone ==
    /\ [](/\ (res.op = "getById" /\ Exists(res.id) /\ ~snippets[res.id].isActive)
              => res.status = 404
          /\ res.op \in {"listMy", "listOrg", "sharedWithMe", "search"}
              => \A i \in res.out.snippets : snippets[i].isActive)
    /\ [][\A i \in 1..Len(snippets) : ~snippets[i].isActive => ~snippets'[i].isActive]_vars

\* The former owner of a soft-deleted snippet asked for it by id (and got 404).
C7_Witness ==
    /\ res.op = "getById" /\ Exists(res.id) /\ ~snippets[res.id].isActive
    /\ snippets[res.id].author = res.user
    /\ snippets[res.id].sharedWith # <<>>

\* The snippet that request r is about is snippet i.
Targets(r, i) ==
    IF r.op = "getByShareId" THEN snippets[i].shareId = r.id ELSE r.id = i

\* C8: every operation on a soft-deleted snippet answers 404 to everyone.
C8_InactiveNotFound ==
    [][\A i \in 1..Len(snippets) :
          (/\ ~snippets[i].isActive
           /\ res'.op \in {"getById", "getByShareId", "update", "delete", "share",
                            "unshare", "joinView", "leaveView", "getViewers"}
           /\ Targets(res', i))
          => res'.status = 404]_vars

\* Entry e of a ledger names user u: by its user id or, when it is pending,
\* by the email of u.
Names(e, u) == e.user = u \/ (e.user = NoUser /\ e.email = users[u].email)

\* C9: no ledger holds two entries for the same email string or two entries
\* that name the same user.
C9_NoDuplicateGrant ==
    \A i \in 1..Len(snippets) :
        \A j, k \in 1..Len(snippets[i].sharedWith) :
            j < k => LET a == snippets[i].sharedWith[j]
                         b == snippets[i].sharedWith[k]
                     IN /\ a.email # b.email
                        /\ \A u \in DOMAIN users : ~(Names(a, u) /\ Names(b, u))

\* The targets of a share request and of the lists of its response.
ShareTargets(body) ==
    {[type |-> "email", value |-> trim(body.emails[k])] :
        k \in 1..Len(IF Has(body, "emails") THEN body.emails ELSE <<>>)}
    \cup {[type |-> "username", value |-> trim(body.usernames[k])] :
        k \in 1..Len(IF Has(body, "usernames") THEN body.usernames ELSE <<>>)}
ListTargets(list) == {[type |-> list[k].type, value |-> list[k].value] : k \in 1..Len(list)}
Count(b) == IF b THEN 1 ELSE 0

\* C10: the response of a share call places every target in exactly one of
\* granted, alreadyShared and notFound, and no grant exists for a target
\* reported under notFound.
C10_ShareResultPartition ==
    (res.op = "share" /\ res.status = 200)
    => LET granted == ListTargets(res.out.sharedWith)
           alreadyShared == IF "alreadyShared" \in DOMAIN res.out
                            THEN ListTargets(res.out.alreadyShared) ELSE {}
           notFound == ListTargets(res.out.notFound)
       IN /\ \A t \in ShareTargets(res.req) :
                Count(t \in granted) + Count(t \in alreadyShared)
                    + Count(t \in notFound) = 1
          /\ \A t \in notFound :
                t.type = "email" =>
                    \A k \in 1..Len(snippets[res.id].sharedWith) :
                        snippets[res.id].sharedWith[k].email # t.value

\* The ledger of doc holds a pending (email-only) entry for the email of user u.
Pending(doc, u) ==
    \E k \in 1..Len(doc.sharedWith) :
        doc.sharedWith[k].user = NoUser /\ doc.sharedWith[k].email = users[u].email

\* C11: a user who registered with an email that the ledger of an active
\* private snippet holds as a pending grant is treated as granted without a
\* further share call: get-by-id returns the snippet to that user and the
\* shared-with-me list of that user holds the snippet.
C11_PendingGrantResolves ==
    /\ (/\ res.op = "getById" /\ Exists(res.id)
        /\ snippets[res.id].isActive /\ snippets[res.id].visibility = "private"
        /\ Pending(snippets[res.id], res.user))
       => ReturnsSnippet(res)
    /\ res.op = "sharedWithMe"
       => \A i \in 1..Len(snippets) :
              (snippets[i].isActive /\ Pending(snippets[i], res.user))
              => i \in res.out.snippets

\* The ledger of doc holds an entry with grant id g.
HasGrant(doc, g) == \E k \in 1..Len(doc.sharedWith) : doc.sharedWith[k].id = g

\* C12: an unshare call by the owner with a grant id that the ledger does not
\* hold (never issued, or already revoked) is answered not found (404, not
\* 200 and not 500) and leaves the ledger unchanged.
C12_UnshareMissingGrant ==
    [][(/\ res'.op = "unshare" /\ Exists(res'.id)
        /\ snippets[res'.id].isActive /\ snippets[res'.id].author = res'.user
        /\ ~HasGrant(snippets[res'.id], res'.req.shareEntryId))
       => /\ res'.status = 404
          /\ snippets'[res'.id].sharedWith = snippets[res'.id].sharedWith]_vars

\* C13: get-by-share-id of an active snippet with visibility private or
\* organization returns the snippet to a requester that a share grant names,
\* also when the requester is of another organization than the snippet.
C13_GrantByShareId ==
    (res.op = "getByShareId" /\ res.user # NoUser) =>
        \A i \in 1..Len(snippets) :
            (/\ snippets[i].shareId = res.id /\ snippets[i].isActive
             /\ snippets[i].visibility \in {"private", "organization"}
             /\ isSharedUser(snippets[i], res.user))
            => ReturnsSnippet(res)

\* C14: get-by-share-id of an active public snippet returns the snippet to
\* an anonymous requester and to an authenticated requester of any
\* organization.
C14_PublicByShareId ==
    res.op = "getByShareId" =>
        \A i \in 1..Len(snippets) :
            (/\ snippets[i].shareId = res.id /\ snippets[i].isActive
             /\ snippets[i].visibility = "public")
            => ReturnsSnippet(res) /\ res.out.snippet = snippets[i]

\* A request without a token has read a public snippet by its share id.
C14_Witness ==
    /\ res.op = "getByShareId" /\ res.user = NoUser /\ ReturnsSnippet(res)
    /\ res.out.snippet.visibility = "public"
    /\ \E i \in 1..Len(snippets) : snippets[i].shareId = res.id /\ snippets[i].isActive

\* The entries of a presence list.
Entries(viewers) == {viewers[k] : k \in 1..Len(viewers)}

\* The presence list that a response carries.
ViewersOf(r) ==
    IF r.op = "getById" THEN r.out.snippet.currentViewers ELSE r.out.currentViewers

\* Presence entry v was last seen five minutes or more before the time t.
Stale(v, t) == t - v.lastSeen >= FiveMinutes

\* The step answers a request: res' is the response to it (the clock stands
\* still in such a step; a step of the clock leaves res as it was).
Answers(ops) == now' = now /\ res'.op \in ops /\ res'.status = 200

C16_OneEntryPerViewer ==
    /\ [](\A i \in 1..Len(snippets) :
             \A j, k \in 1..Len(snippets[i].currentViewers) :
                 j < k => snippets[i].currentViewers[j].user # snippets[i].currentViewers[k].user)
    /\ [][Answers({"joinView"})
          => \A v \in Entries(snippets'[res'.id].currentViewers) :
                 v.user = res'.user
                 => v.lastSeen = now /\ v.socketId = res'.req.socketId]_vars

\* A viewer has joined with the second session token, minutes after the
\* start, and is listed after another viewer.
C16_Witness ==
    /\ res.op = "joinView" /\ res.status = 200 /\ res.req.socketId = "s2"
    /\ Len(res.out.currentViewers) = 2
    /\ res.out.currentViewers[2].user = res.user
    /\ res.out.currentViewers[2].lastSeen > res.out.currentViewers[1].lastSeen
    /\ res.user = 1

\* A search query that carries no filter.
NoFilters(query) ==
    ~Has(query, "author") /\ (Has(query, "language") => query.language = "all")

\* C17: a search without filters returns exactly the active snippets of the
\* requester's organization that get-by-id lets the requester read, the
\* private snippets of other owners that are shared with the requester
\* included.
C17_SearchEqualsReadable ==
    (res.op = "search" /\ NoFilters(res.req))
    => res.out.snippets =
           {i \in 1..Len(snippets) :
               /\ snippets[i].isActive
               /\ snippets[i].organization = users[res.user].organization
               /\ ~getByIdDenied(snippets[i], auth(res.user))}

\* C18: every snippet that a search returns is active, is of the caller's
\* organization, is public, organization-visible or a private snippet of
\* the caller, and matches the language filter and the author filter of the
\* query when the query carries them.
C18_SearchResultsPermitted ==
    res.op = "search" =>
        \A i \in res.out.snippets :
            /\ snippets[i].isActive
            /\ snippets[i].organization = users[res.user].organization
            /\ \/ snippets[i].visibility \in {"public", "organization"}
               \/ snippets[i].visibility = "private" /\ snippets[i].author = res.user
            /\ (Has(res.req, "language") /\ res.req.language # "all")
               => snippets[i].language = res.req.language
            /\ Has(res.req, "author")
               => authorRegExp(trim(res.req.author), users[snippets[i].author].username)

\* A search by language and author together has returned a snippet.
C18_Witness ==
    /\ res.op = "search" /\ res.out.snippets # {}
    /\ Has(res.req, "author") /\ Has(res.req, "language") /\ res.req.language = "python"

\* The shareId that the default of the schema gave snippet i at its creation.
CreatedShareId(i) == i

\* C19: no two snippet records, active or soft-deleted, carry the same
\* shareId, and the shareId that was assigned to one snippet at its creation
\* is never carried by a different snippet, whatever has happened to the
\* first snippet since.
C19_ShareIdNeverReused ==
    \A i, j \in 1..Len(snippets) :
        i # j => /\ snippets[i].shareId # snippets[j].shareId
                 /\ snippets[j].shareId # CreatedShareId(i)

\* C20: a get-by-share-id request that is allowed and that no other request
\* overlaps raises the view counter of the snippet by exactly one; a request
\* that is answered 403 or 404 leaves every view counter as it was; and no
\* step, of overlapping requests included, lowers a view counter.
C20_ViewCounter ==
    [][/\ \A i \in 1..Len(snippets) : snippets'[i].views >= snippets[i].views
       /\ (/\ inflight = <<>> /\ inflight' = <<>>
           /\ res'.op = "getByShareId" /\ res'.status = 200)
          => \A i \in 1..Len(snippets) :
                 (snippets[i].shareId = res'.id /\ snippets[i].isActive)
                 => snippets'[i].views = snippets[i].views + 1
       /\ (/\ inflight' = inflight
           /\ res'.op = "getByShareId" /\ res'.status \in {403, 404})
          => \A i \in 1..Len(snippets) : snippets'[i].views = snippets[i].views]_vars

\* C21: in a deployment that starts with an empty user store the first user
\* who registers has the role admin and every user who registers later has
\* the role user.
C21_FirstUserAdmin ==
    \A u \in DOMAIN users :
        users[u].role = IF u = 1 THEN "admin" ELSE "user"

\* C22: on an active snippet join-view and get-by-id make the same access
\* decision for every authenticated requester: join-view is allowed exactly
\* when get-by-id returns the snippet, and is answered 403 exactly when
\* get-by-id is answered 403.
C22_JoinViewAsGetById ==
    (/\ res.op \in {"joinView", "getById"} /\ Exists(res.id)
     /\ snippets[res.id].isActive)
    => LET doc == snippets[res.id]
           reqUser == auth(res.user)
       IN IF res.op = "joinView"
          THEN /\ res.status = 200 <=> ~getByIdDenied(doc, reqUser)
               /\ res.status = 403 <=> getByIdDenied(doc, reqUser)
          ELSE /\ res.status = 200 <=> ~joinViewDenied(doc, reqUser)
               /\ res.status = 403 <=> joinViewDenied(doc, reqUser)

\* The step completes a join-view request that was in flight.
JoinCompletes ==
    /\ Len(inflight') < Len(inflight)
    /\ res'.op = "joinView"

\* Presence list viewers holds an entry of user u.
Viewing(viewers, u) == \E v \in Entries(viewers) : v.user = u

EntriesOf(viewers, u) == Cardinality({k \in 1..Len(viewers) : viewers[k].user = u})

C25_OverlappingSharesOneEntry ==
    inflight = <<>> =>
        \A i \in 1..Len(snippets) :
            \A j, k \in 1..Len(snippets[i].sharedWith) :
                j < k => snippets[i].sharedWith[j].email # snippets[i].sharedWith[k].email

\* C26: a requester for whom get-by-id of an active snippet is denied does
\* not obtain its presence set (get-viewers returns no list to that
\* requester) and a leave-view of that requester does not modify the snippet.
C26_PresenceOnlyForReaders ==
    [][(/\ res'.op \in {"getViewers", "leaveView"} /\ Exists(res'.id)
        /\ snippets[res'.id].isActive
        /\ getByIdDenied(snippets[res'.id], auth(res'.user)))
       => /\ res'.op = "getViewers" =>
                 res'.status # 200 /\ ~Has(res'.out, "currentViewers")
          /\ res'.op = "leaveView" => snippets' = snippets]_vars

\* The owner's unshare of this step succeeded and removed a ledger entry of
\* private snippet id that names user u, who is not the owner.
Unshared(id, u) ==
    /\ res'.op = "unshare" /\ res'.status = 200 /\ res'.id = id
    /\ snippets[id].visibility = "private" /\ snippets[id].author # u
    /\ \E k \in 1..Len(snippets[id].sharedWith) :
           /\ snippets[id].sharedWith[k].id = res'.req.shareEntryId
           /\ snippets[id].sharedWith[k].user = u

\* C27: after the owner's unshare of the ledger entry that names user U on
\* a private snippet has succeeded, U is denied get-by-id and join-view on
\* the snippet and the snippet is not in U's shared-with-me list.
C27_UnshareRevokes ==
    [][\A id \in 1..Len(snippets), u \in DOMAIN users :
          Unshared(id, u)
          => /\ getByIdDenied(snippets'[id], auth(u))
             /\ joinViewDenied(snippets'[id], auth(u))
             /\ ~\E k \in 1..Len(snippets'[id].sharedWith) :
                    snippets'[id].sharedWith[k].user = u]_vars

\* C28: soft-delete is irreversible: once the active flag of a snippet is
\* false, no operation of any user sets it back to true, whatever the body
\* of an update, and no operation removes a record from the store.
C28_SoftDeleteIrreversible ==
    [][/\ Len(snippets') >= Len(snippets)
       /\ \A i \in 1..Len(snippets) :
             /\ snippets'[i].author = snippets[i].author
             /\ ~snippets[i].isActive => ~snippets'[i].isActive]_vars

\* The owner of a soft-deleted snippet sent an update whose body sets the
\* active flag to true (and got 404; the flag is still false).
C28_Witness ==
    /\ res.op = "update" /\ Exists(res.id) /\ res.status = 404
    /\ Has(res.req, "isActive") /\ res.req.isActive
    /\ snippets[res.id].author = res.user /\ ~snippets[res.id].isActive

\* C29: after an administrator's config update has set allowRegistration to
\* false while the authentication mode is local, every register request is
\* rejected with 403 and creates no user, and no request other than a config
\* update changes the stored allowRegistration.
C29_RegistrationStaysClosed ==
    [][/\ (/\ config.authMode = "local" /\ ~config.allowRegistration
           /\ res'.op = "register")
          => res'.status = 403 /\ users' = users
       /\ res'.op # "updateConfig"
          => config'.allowRegistration = config.allowRegistration]_vars

\* C30: in every reachable configuration at least one login route is open:
\* local login and Azure AD login do not both answer 403.
C30_SomeLoginOpen ==
    ~getConfigThrows(config, env)
    => ~(/\ localLoginDenied(getConfig(config, env))
         /\ azureLoginDenied(getConfig(config, env)))

====
